---- MODULE Spec2Model ----
(***************************************************************************)
(* Model of the three banking onboarding services of the repository:       *)
(*   src/aadhaar_app.py  Aadhaar linking  (table aadhaar_link_requests)    *)
(*   src/pan_app.py      PAN linking      (table pan_link_requests)        *)
(*   src/app.py          KYC onboarding   (tables kyc_sessions,            *)
(*                                         kyc_documents)                  *)
(* Each action is one request handler (the body of a MethodView method),   *)
(* run to completion: lookup, status assignment, commit, response.  The    *)
(* handler's `data` argument has already passed its marshmallow schema, so *)
(* inputs are drawn from values the schema admits.                         *)
(***************************************************************************)
EXTENDS Integers, Sequences, FiniteSets, TLC

VARIABLES
    aadhaar_link_requests,  \* requestId -> row of AadhaarRequestModel
    pan_link_requests,      \* requestId -> row of PanRequestModel
    kyc_sessions,           \* id -> row of SessionModel
    kyc_documents,          \* id -> row of DocumentModel
    now,                    \* the value datetime.utcnow() returns
    resp,                   \* the last response sent: handler, path id, code, body
    supplied,               \* requestId -> the aadhaarNumber / panNumber posted at creation
    inflight                \* worker -> the handler it is in the middle of (concurrent runs)

vars == <<aadhaar_link_requests, pan_link_requests, kyc_sessions, kyc_documents,
          now, resp, supplied, inflight>>

----------------------------------------------------------------------------
(* Bounds and input sets *)

\* the clock reads 0..MaxTime
MaxTime == 1

\* at most MaxRows rows are inserted, over the four tables together
MaxRows == 3

AadhaarIds == {"ADR_0000000A", "ADR_0000000B"}
PanIds == {"PAN_0000000A", "PAN_0000000B"}
SessionIds == {"sess_0000000A", "sess_0000000B"}
DocIds == {"doc_0000000A", "doc_0000000B"}

AadhaarNumbers ==
    { <<"1","2","3","4","5","6","7","8","9","0","1","2">>,
      <<"9","0","1","2","0","0","0","0","4","4","4","4">> }

PanNumbers == { <<"A","B","C","D","E","1","2","3","4","F">> }

CustomerNames == {"Asha"}

Otps == { <<"0","0","0","0","0","0">>, <<"1","2","3","4","5","6">> }

KycPurposes == {"ACCOUNT_OPENING"}
Jurisdictions == {"IN"}
DocumentTypes == {"PAN", "AADHAAR", "PASSPORT", "VOTER_ID"}
\* the document types posted
PostedDocumentTypes == {"PAN", "PASSPORT"}
Sides == {"FRONT", "BACK"}
\* the sides posted
PostedSides == {"FRONT"}
Countries == {"IN"}

Workers == {"w1", "w2"}

----------------------------------------------------------------------------
(* Helpers *)

\* Python s[-4:]
Last4(s) == SubSeq(s, IF Len(s) > 4 THEN Len(s) - 3 ELSE 1, Len(s))

\* hashlib.sha256(s.encode()).hexdigest(): a deterministic digest, kept as an
\* uninterpreted term over its input
Sha256Hex(s) == <<"sha256", s>>

\* the mask built from the first four characters, aadhaarNumber[:4]
MaskAadhaarFirst4(aadhaarNumber) ==
    <<"X","X","X","X","-","X","X","X","X","-">> \o SubSeq(aadhaarNumber, 1, 4)

MaskAadhaar(aadhaarNumber) ==
    <<"X","X","X","X","-","X","X","X","X","-">> \o Last4(aadhaarNumber)

MaskPan(pan_number) ==
    <<"*","*","*","*","*","*">> \o Last4(pan_number)

\* Model.query.get_or_404(id) finds a row
Found(table, id) == id \in DOMAIN table

\* db.session.add(row); db.session.commit() of a row whose primary key is free
Insert(table, id, row) == [k \in DOMAIN table \cup {id} |-> IF k = id THEN row ELSE table[k]]

\* request.status = newStatus; db.session.commit().  The unit of work emits an
\* UPDATE only when the attribute's value changed, and updated_at's
\* onupdate=datetime.utcnow is applied only when an UPDATE is emitted.
SetStatus(row, newStatus, t) ==
    IF row.status = newStatus
    THEN row
    ELSE [row EXCEPT !.status = newStatus, !.updated_at = t]

NoResponse == [op |-> "none", id |-> "none", code |-> 0, body |-> [message |-> "none"]]

Response(op, id, code, body) == [op |-> op, id |-> id, code |-> code, body |-> body]

\* a lookup that answers 200 for a missing row
NotFoundAsOk(op, id) == Response(op, id, 200, [message |-> "OK"])

\* get_or_404 / abort(404)
NotFound(op, id) == Response(op, id, 404, [message |-> "Not Found"])

\* an unhandled IntegrityError of the INSERT (duplicate primary key)
ServerError(op, id) == Response(op, id, 500, [message |-> "Internal Server Error"])

\* an INSERT that goes through whatever the table holds (an upsert)
DuplicateKeyIgnored(table, id) == FALSE

\* the INSERT of db.session.commit() meets a row with the same primary key
\* (primary_key=True): the commit raises and nothing is written
DuplicateKey(table, id) == Found(table, id)

RowCount ==
    Cardinality(DOMAIN aadhaar_link_requests) + Cardinality(DOMAIN pan_link_requests)
        + Cardinality(DOMAIN kyc_sessions) + Cardinality(DOMAIN kyc_documents)

\* an INSERT of a new primary key stays within the bound on rows
CanInsert(table, id) == Found(table, id) \/ RowCount < MaxRows

Idle == [w \in Workers |-> [op |-> "idle"]]

----------------------------------------------------------------------------
Init ==
    /\ aadhaar_link_requests = << >>
    /\ pan_link_requests = << >>
    /\ kyc_sessions = << >>
    /\ kyc_documents = << >>
    /\ now = 0
    /\ resp = NoResponse
    /\ supplied = << >>
    /\ inflight = Idle

\* time passes between requests
Tick ==
    /\ now < MaxTime
    /\ now' = now + 1
    /\ UNCHANGED <<aadhaar_link_requests, pan_link_requests, kyc_sessions,
                   kyc_documents, resp, supplied, inflight>>

----------------------------------------------------------------------------
(* Aadhaar service *)

\* a row inserted with the status of the next step
AadhaarRowOtpSent(request_id, aadhaarNumber, consentObtained, t) ==
    [ request_id |-> request_id,
      aadhaar_hash |-> Sha256Hex(aadhaarNumber),
      masked_aadhaar |-> MaskAadhaar(aadhaarNumber),
      status |-> "OTP_SENT",
      consent_obtained |-> consentObtained,
      created_at |-> t,
      updated_at |-> t ]

AadhaarRow(request_id, aadhaarNumber, consentObtained, t) ==
    [ request_id |-> request_id,
      aadhaar_hash |-> Sha256Hex(aadhaarNumber),
      masked_aadhaar |-> MaskAadhaar(aadhaarNumber),
      status |-> "PENDING_OTP",
      consent_obtained |-> consentObtained,
      created_at |-> t,
      updated_at |-> t ]

AadhaarStart(request_id, aadhaarNumber) ==
    /\ CanInsert(aadhaar_link_requests, request_id)
    /\ IF DuplicateKey(aadhaar_link_requests, request_id)
       THEN /\ resp' = ServerError("AadhaarStart", request_id)
            /\ UNCHANGED <<aadhaar_link_requests, supplied>>
       ELSE LET new_request == AadhaarRow(request_id, aadhaarNumber, TRUE, now)
            IN /\ aadhaar_link_requests' =
                      Insert(aadhaar_link_requests, request_id, new_request)
               /\ supplied' = Insert(supplied, request_id, aadhaarNumber)
               /\ resp' = Response("AadhaarStart", request_id, 201,
                              [ requestId |-> request_id,
                                status |-> new_request.status,
                                message |-> "Aadhaar linking initiated. Consent verified." ])
    /\ UNCHANGED <<pan_link_requests, kyc_sessions, kyc_documents, now, inflight>>

AadhaarSendOtpStatus == "OTP_SENT"

\* send-otp as an UPDATE with no WHERE clause on the request id
AadhaarSendOtpAllRows(requestId) ==
    /\ IF ~Found(aadhaar_link_requests, requestId)
       THEN /\ resp' = NotFound("AadhaarSendOtp", requestId)
            /\ UNCHANGED aadhaar_link_requests
       ELSE /\ aadhaar_link_requests' =
                   [k \in DOMAIN aadhaar_link_requests |->
                        SetStatus(aadhaar_link_requests[k], AadhaarSendOtpStatus, now)]
            /\ resp' = Response("AadhaarSendOtp", requestId, 200,
                           [ requestId |-> requestId,
                             status |-> AadhaarSendOtpStatus,
                             message |-> "OTP successfully triggered via UIDAI gateway" ])
    /\ UNCHANGED <<pan_link_requests, kyc_sessions, kyc_documents, now, supplied, inflight>>

AadhaarSendOtp(requestId) ==
    /\ IF ~Found(aadhaar_link_requests, requestId)
       THEN /\ resp' = NotFound("AadhaarSendOtp", requestId)
            /\ UNCHANGED aadhaar_link_requests
       ELSE LET request == SetStatus(aadhaar_link_requests[requestId],
                                     AadhaarSendOtpStatus, now)
            IN /\ aadhaar_link_requests' =
                      [aadhaar_link_requests EXCEPT ![requestId] = request]
               /\ resp' = Response("AadhaarSendOtp", requestId, 200,
                              [ requestId |-> requestId,
                                status |-> request.status,
                                message |-> "OTP successfully triggered via UIDAI gateway" ])
    /\ UNCHANGED <<pan_link_requests, kyc_sessions, kyc_documents, now, supplied, inflight>>

\* verify-otp writing the final status itself
AadhaarVerifyOtpStatusLinked == "LINKED"

AadhaarVerifyOtpStatus == "OTP_VERIFIED"

\* data['otp'] is accepted by the schema and then never read
AadhaarVerifyOtp(otp, requestId) ==
    /\ IF ~Found(aadhaar_link_requests, requestId)
       THEN /\ resp' = NotFound("AadhaarVerifyOtp", requestId)
            /\ UNCHANGED aadhaar_link_requests
       ELSE LET request == SetStatus(aadhaar_link_requests[requestId],
                                     AadhaarVerifyOtpStatus, now)
            IN /\ aadhaar_link_requests' =
                      [aadhaar_link_requests EXCEPT ![requestId] = request]
               /\ resp' = Response("AadhaarVerifyOtp", requestId, 200,
                              [ requestId |-> requestId,
                                status |-> request.status,
                                message |-> "UIDAI OTP validation successful" ])
    /\ UNCHANGED <<pan_link_requests, kyc_sessions, kyc_documents, now, supplied, inflight>>

\* a guard that only refuses a request no OTP was ever sent for
AadhaarFinalizeAllowedUnlessPending(status) == status # "PENDING_OTP"

\* the negation of `if request.status != "OTP_VERIFIED": abort(400, ...)`
AadhaarFinalizeAllowed(status) == status = "OTP_VERIFIED"

AadhaarFinalizeStatus == "LINKED"

PreconditionFailed(op, id, message) == Response(op, id, 400, [message |-> message])

AadhaarFinalize(requestId) ==
    /\ IF ~Found(aadhaar_link_requests, requestId)
       THEN /\ resp' = NotFound("AadhaarFinalize", requestId)
            /\ UNCHANGED aadhaar_link_requests
       ELSE IF ~AadhaarFinalizeAllowed(aadhaar_link_requests[requestId].status)
       THEN /\ resp' = PreconditionFailed("AadhaarFinalize", requestId,
                           "Aadhaar OTP must be verified before final link.")
            /\ UNCHANGED aadhaar_link_requests
       ELSE LET request == SetStatus(aadhaar_link_requests[requestId],
                                     AadhaarFinalizeStatus, now)
            IN /\ aadhaar_link_requests' =
                      [aadhaar_link_requests EXCEPT ![requestId] = request]
               /\ resp' = Response("AadhaarFinalize", requestId, 200,
                              [ requestId |-> requestId,
                                status |-> request.status,
                                maskedAadhaar |-> request.masked_aadhaar,
                                message |-> "Aadhaar successfully linked to the primary account." ])
    /\ UNCHANGED <<pan_link_requests, kyc_sessions, kyc_documents, now, supplied, inflight>>

AadhaarStatusBody(request) ==
    [ requestId |-> request.request_id,
      status |-> request.status,
      maskedAadhaar |-> request.masked_aadhaar,
      updatedAt |-> request.updated_at ]

AadhaarStatus(requestId) ==
    /\ IF ~Found(aadhaar_link_requests, requestId)
       THEN resp' = NotFound("AadhaarStatus", requestId)
       ELSE resp' = Response("AadhaarStatus", requestId, 200,
                        AadhaarStatusBody(aadhaar_link_requests[requestId]))
    /\ UNCHANGED <<aadhaar_link_requests, pan_link_requests, kyc_sessions,
                   kyc_documents, now, supplied, inflight>>

----------------------------------------------------------------------------
(* PAN service *)

PanRow(request_id, panNumber, customerName, t) ==
    [ request_id |-> request_id,
      pan_number |-> panNumber,
      customer_name |-> customerName,
      status |-> "PENDING_OTP",
      created_at |-> t,
      updated_at |-> t ]

PanStart(request_id, panNumber, customerName) ==
    /\ CanInsert(pan_link_requests, request_id)
    /\ IF DuplicateKey(pan_link_requests, request_id)
       THEN /\ resp' = ServerError("PanStart", request_id)
            /\ UNCHANGED <<pan_link_requests, supplied>>
       ELSE LET new_request == PanRow(request_id, panNumber, customerName, now)
            IN /\ pan_link_requests' = Insert(pan_link_requests, request_id, new_request)
               /\ supplied' = Insert(supplied, request_id, panNumber)
               /\ resp' = Response("PanStart", request_id, 201,
                              [ requestId |-> request_id,
                                status |-> new_request.status,
                                message |-> "Linking request initiated. Please send OTP." ])
    /\ UNCHANGED <<aadhaar_link_requests, kyc_sessions, kyc_documents, now, inflight>>

\* send-otp writing the initial status back
PanSendOtpStatusPending == "PENDING_OTP"

PanSendOtpStatus == "OTP_SENT"

PanSendOtp(requestId) ==
    /\ IF ~Found(pan_link_requests, requestId)
       THEN /\ resp' = NotFound("PanSendOtp", requestId)
            /\ UNCHANGED pan_link_requests
       ELSE LET request == SetStatus(pan_link_requests[requestId], PanSendOtpStatus, now)
            IN /\ pan_link_requests' = [pan_link_requests EXCEPT ![requestId] = request]
               /\ resp' = Response("PanSendOtp", requestId, 200,
                              [ requestId |-> requestId,
                                status |-> request.status,
                                message |-> "OTP has been sent to registered mobile number" ])
    /\ UNCHANGED <<aadhaar_link_requests, kyc_sessions, kyc_documents, now, supplied, inflight>>

PanVerifyOtpStatus == "OTP_VERIFIED"

PanVerifyOtp(otp, requestId) ==
    /\ IF ~Found(pan_link_requests, requestId)
       THEN /\ resp' = NotFound("PanVerifyOtp", requestId)
            /\ UNCHANGED pan_link_requests
       ELSE LET request == SetStatus(pan_link_requests[requestId], PanVerifyOtpStatus, now)
            IN /\ pan_link_requests' = [pan_link_requests EXCEPT ![requestId] = request]
               /\ resp' = Response("PanVerifyOtp", requestId, 200,
                              [ requestId |-> requestId,
                                status |-> request.status,
                                message |-> "OTP verified successfully" ])
    /\ UNCHANGED <<aadhaar_link_requests, kyc_sessions, kyc_documents, now, supplied, inflight>>

PanFinalizeAllowed(status) == status = "OTP_VERIFIED"

PanFinalizeStatus == "LINKED"

PanFinalize(requestId) ==
    /\ IF ~Found(pan_link_requests, requestId)
       THEN /\ resp' = NotFound("PanFinalize", requestId)
            /\ UNCHANGED pan_link_requests
       ELSE IF ~PanFinalizeAllowed(pan_link_requests[requestId].status)
       THEN /\ resp' = PreconditionFailed("PanFinalize", requestId,
                           "OTP must be verified before finalizing link.")
            /\ UNCHANGED pan_link_requests
       ELSE LET request == SetStatus(pan_link_requests[requestId], PanFinalizeStatus, now)
            IN /\ pan_link_requests' = [pan_link_requests EXCEPT ![requestId] = request]
               /\ resp' = Response("PanFinalize", requestId, 200,
                              [ requestId |-> requestId,
                                status |-> request.status,
                                message |-> "PAN has been successfully linked to the account" ])
    /\ UNCHANGED <<aadhaar_link_requests, kyc_sessions, kyc_documents, now, supplied, inflight>>

PanStatusBody(request) ==
    [ requestId |-> request.request_id,
      status |-> request.status,
      pan_number |-> MaskPan(request.pan_number),
      updatedAt |-> request.updated_at ]

PanStatus(requestId) ==
    /\ IF ~Found(pan_link_requests, requestId)
       THEN resp' = NotFound("PanStatus", requestId)
       ELSE resp' = Response("PanStatus", requestId, 200,
                        PanStatusBody(pan_link_requests[requestId]))
    /\ UNCHANGED <<aadhaar_link_requests, pan_link_requests, kyc_sessions,
                   kyc_documents, now, supplied, inflight>>

----------------------------------------------------------------------------
(* KYC service *)

SessionRow(id, kycPurpose, jurisdiction, t) ==
    [ id |-> id,
      kyc_purpose |-> kycPurpose,
      jurisdiction |-> jurisdiction,
      status |-> "CREATED",
      created_at |-> t ]

\* data['customer'] is required by the schema and never stored
Sessions(session_id, kycPurpose, jurisdiction) ==
    /\ CanInsert(kyc_sessions, session_id)
    /\ IF DuplicateKey(kyc_sessions, session_id)
       THEN /\ resp' = ServerError("Sessions", session_id)
            /\ UNCHANGED kyc_sessions
       ELSE LET new_session == SessionRow(session_id, kycPurpose, jurisdiction, now)
            IN /\ kyc_sessions' = Insert(kyc_sessions, session_id, new_session)
               /\ resp' = Response("Sessions", session_id, 201,
                              [ sessionId |-> new_session.id,
                                status |-> new_session.status ])
    /\ UNCHANGED <<aadhaar_link_requests, pan_link_requests, kyc_documents, now,
                   supplied, inflight>>

DocumentRow(id, sessionId, documentType, side, country, t) ==
    [ id |-> id,
      session_id |-> sessionId,
      document_type |-> documentType,
      side |-> side,
      country |-> country,
      state |-> "UPLOADED",
      uploaded_at |-> t ]

\* the handler without its session lookup
DocsSessionUnchecked(sessionId) == TRUE

\* `session = SessionModel.query.get_or_404(sessionId)`: the handler goes on
\* only for a session that exists
DocsSessionExists(sessionId) == Found(kyc_sessions, sessionId)

Docs(doc_id, documentType, side, country, sessionId) ==
    /\ ~DocsSessionExists(sessionId) \/ CanInsert(kyc_documents, doc_id)
    /\ IF ~DocsSessionExists(sessionId)
       THEN /\ resp' = NotFound("Docs", sessionId)
            /\ UNCHANGED kyc_documents
       ELSE IF DuplicateKey(kyc_documents, doc_id)
       THEN /\ resp' = ServerError("Docs", sessionId)
            /\ UNCHANGED kyc_documents
       ELSE LET new_doc == DocumentRow(doc_id, sessionId, documentType, side, country, now)
            IN /\ kyc_documents' = Insert(kyc_documents, doc_id, new_doc)
               /\ resp' = Response("Docs", sessionId, 201,
                              [ documentId |-> new_doc.id,
                                status |-> new_doc.state ])
    /\ UNCHANGED <<aadhaar_link_requests, pan_link_requests, kyc_sessions, now,
                   supplied, inflight>>

\* the relationship without its join on session_id: every document
AllDocuments(sessionId) == DOMAIN kyc_documents

\* session.documents: the rows of kyc_documents whose session_id is the session's id
SessionDocuments(sessionId) ==
    { d \in DOMAIN kyc_documents : kyc_documents[d].session_id = sessionId }

\* the list comprehension of Summary.get; the rows come back in no stated
\* order, so the list is kept as the set of its entries (ids are distinct)
SummaryDocs(sessionId) ==
    { [ id |-> kyc_documents[d].id,
        type |-> kyc_documents[d].document_type,
        status |-> kyc_documents[d].state ] : d \in SessionDocuments(sessionId) }

Summary(sessionId) ==
    /\ IF ~Found(kyc_sessions, sessionId)
       THEN resp' = NotFound("Summary", sessionId)
       ELSE LET docs == SummaryDocs(sessionId)
            IN resp' = Response("Summary", sessionId, 200,
                           [ sessionId |-> sessionId,
                             status |-> kyc_sessions[sessionId].status,
                             documentCount |-> Cardinality(docs),
                             documents |-> docs ])
    /\ UNCHANGED <<aadhaar_link_requests, pan_link_requests, kyc_sessions,
                   kyc_documents, now, supplied, inflight>>

----------------------------------------------------------------------------
(* Specifications: handlers run one at a time *)

AadhaarNext ==
    \/ \E id \in AadhaarIds, n \in AadhaarNumbers : AadhaarStart(id, n)
    \/ \E id \in AadhaarIds : AadhaarSendOtp(id)
    \/ \E id \in AadhaarIds, otp \in Otps : AadhaarVerifyOtp(otp, id)
    \/ \E id \in AadhaarIds : AadhaarFinalize(id)
    \/ \E id \in AadhaarIds : AadhaarStatus(id)

PanNext ==
    \/ \E id \in PanIds, n \in PanNumbers, c \in CustomerNames : PanStart(id, n, c)
    \/ \E id \in PanIds : PanSendOtp(id)
    \/ \E id \in PanIds, otp \in Otps : PanVerifyOtp(otp, id)
    \/ \E id \in PanIds : PanFinalize(id)
    \/ \E id \in PanIds : PanStatus(id)

KycNext ==
    \/ \E id \in SessionIds, p \in KycPurposes, j \in Jurisdictions : Sessions(id, p, j)
    \/ \E id \in DocIds, ty \in PostedDocumentTypes, sd \in PostedSides, c \in Countries,
          s \in SessionIds : Docs(id, ty, sd, c, s)
    \/ \E id \in SessionIds : Summary(id)

Next ==
    \/ AadhaarNext
    \/ PanNext
    \/ KycNext

\* No handler reads a timestamp to decide anything; the clock stands still
\* here and is advanced in SpecClock.
Spec == Init /\ [][Next]_vars

ClockNext ==
    \/ Tick
    \/ AadhaarNext

\* the Aadhaar service with time passing between requests
SpecClock == Init /\ [][ClockNext]_vars

PanClockNext ==
    \/ Tick
    \/ PanNext

\* the PAN service with time passing between requests
SpecClockPan == Init /\ [][PanClockNext]_vars

----------------------------------------------------------------------------
(* The same handlers as two steps each, for requests served at the same    *)
(* time: the SELECT of get_or_404 into the worker's own session, and later *)
(* the assignment with db.session.commit().  Neither service takes a row   *)
(* lock or checks a version, so the UPDATE is applied to whatever the row  *)
(* holds by then.                                                          *)

AadhaarWriters == {"AadhaarSendOtp", "AadhaarVerifyOtp", "AadhaarFinalize"}

AadhaarNewStatus(op) ==
    CASE op = "AadhaarSendOtp" -> AadhaarSendOtpStatus
      [] op = "AadhaarVerifyOtp" -> AadhaarVerifyOtpStatus
      [] op = "AadhaarFinalize" -> AadhaarFinalizeStatus

AadhaarMessage(op) ==
    CASE op = "AadhaarSendOtp" -> "OTP successfully triggered via UIDAI gateway"
      [] op = "AadhaarVerifyOtp" -> "UIDAI OTP validation successful"
      [] op = "AadhaarFinalize" -> "Aadhaar successfully linked to the primary account."

\* request = AadhaarRequestModel.query.get_or_404(requestId), and for
\* finalize the status check on the row just loaded
AadhaarLoad(w, op, requestId) ==
    /\ inflight[w].op = "idle"
    /\ IF ~Found(aadhaar_link_requests, requestId)
       THEN /\ resp' = NotFound(op, requestId)
            /\ UNCHANGED inflight
       ELSE IF op = "AadhaarFinalize"
               /\ ~AadhaarFinalizeAllowed(aadhaar_link_requests[requestId].status)
       THEN /\ resp' = PreconditionFailed(op, requestId,
                           "Aadhaar OTP must be verified before final link.")
            /\ UNCHANGED inflight
       ELSE /\ inflight' = [inflight EXCEPT ![w] =
                   [op |-> op, id |-> requestId,
                    request |-> aadhaar_link_requests[requestId]]]
            /\ UNCHANGED resp
    /\ UNCHANGED <<aadhaar_link_requests, pan_link_requests, kyc_sessions,
                   kyc_documents, now, supplied>>

\* request.status = ...; db.session.commit(): UPDATE ... SET status, updated_at
\* WHERE request_id = ..., emitted when the value differs from the one loaded;
\* the response then reads the row back
AadhaarCommit(w) ==
    /\ inflight[w].op \in AadhaarWriters
    /\ LET op == inflight[w].op
           requestId == inflight[w].id
           stored == aadhaar_link_requests[requestId]
           request == IF inflight[w].request.status = AadhaarNewStatus(op)
                      THEN stored
                      ELSE [stored EXCEPT !.status = AadhaarNewStatus(op),
                                          !.updated_at = now]
       IN /\ aadhaar_link_requests' =
                 [aadhaar_link_requests EXCEPT ![requestId] = request]
          /\ resp' = Response(op, requestId, 200,
                 IF op = "AadhaarFinalize"
                 THEN [ requestId |-> requestId,
                        status |-> request.status,
                        maskedAadhaar |-> request.masked_aadhaar,
                        message |-> AadhaarMessage(op) ]
                 ELSE [ requestId |-> requestId,
                        status |-> request.status,
                        message |-> AadhaarMessage(op) ])
    /\ inflight' = [inflight EXCEPT ![w] = [op |-> "idle"]]
    /\ UNCHANGED <<pan_link_requests, kyc_sessions, kyc_documents, now, supplied>>

PanWriters == {"PanSendOtp", "PanVerifyOtp", "PanFinalize"}

PanNewStatus(op) ==
    CASE op = "PanSendOtp" -> PanSendOtpStatus
      [] op = "PanVerifyOtp" -> PanVerifyOtpStatus
      [] op = "PanFinalize" -> PanFinalizeStatus

PanMessage(op) ==
    CASE op = "PanSendOtp" -> "OTP has been sent to registered mobile number"
      [] op = "PanVerifyOtp" -> "OTP verified successfully"
      [] op = "PanFinalize" -> "PAN has been successfully linked to the account"

PanLoad(w, op, requestId) ==
    /\ inflight[w].op = "idle"
    /\ IF ~Found(pan_link_requests, requestId)
       THEN /\ resp' = NotFound(op, requestId)
            /\ UNCHANGED inflight
       ELSE IF op = "PanFinalize"
               /\ ~PanFinalizeAllowed(pan_link_requests[requestId].status)
       THEN /\ resp' = PreconditionFailed(op, requestId,
                           "OTP must be verified before finalizing link.")
            /\ UNCHANGED inflight
       ELSE /\ inflight' = [inflight EXCEPT ![w] =
                   [op |-> op, id |-> requestId,
                    request |-> pan_link_requests[requestId]]]
            /\ UNCHANGED resp
    /\ UNCHANGED <<aadhaar_link_requests, pan_link_requests, kyc_sessions,
                   kyc_documents, now, supplied>>

PanCommit(w) ==
    /\ inflight[w].op \in PanWriters
    /\ LET op == inflight[w].op
           requestId == inflight[w].id
           stored == pan_link_requests[requestId]
           request == IF inflight[w].request.status = PanNewStatus(op)
                      THEN stored
                      ELSE [stored EXCEPT !.status = PanNewStatus(op),
                                          !.updated_at = now]
       IN /\ pan_link_requests' = [pan_link_requests EXCEPT ![requestId] = request]
          /\ resp' = Response(op, requestId, 200,
                 [ requestId |-> requestId,
                   status |-> request.status,
                   message |-> PanMessage(op) ])
    /\ inflight' = [inflight EXCEPT ![w] = [op |-> "idle"]]
    /\ UNCHANGED <<aadhaar_link_requests, kyc_sessions, kyc_documents, now, supplied>>

ConcNext ==
    \/ \E id \in AadhaarIds, n \in AadhaarNumbers : AadhaarStart(id, n)
    \/ \E id \in AadhaarIds : AadhaarStatus(id)
    \/ \E w \in Workers, op \in AadhaarWriters, id \in AadhaarIds : AadhaarLoad(w, op, id)
    \/ \E w \in Workers : AadhaarCommit(w)

\* the Aadhaar service serving requests on Workers at once
SpecConc == Init /\ [][ConcNext]_vars

PanConcNext ==
    \/ \E id \in PanIds, n \in PanNumbers, c \in CustomerNames : PanStart(id, n, c)
    \/ \E id \in PanIds : PanStatus(id)
    \/ \E w \in Workers, op \in PanWriters, id \in PanIds : PanLoad(w, op, id)
    \/ \E w \in Workers : PanCommit(w)

\* the PAN service serving requests on Workers at once
SpecConcPan == Init /\ [][PanConcNext]_vars

----------------------------------------------------------------------------
(* Properties.  In Spec every step is one handler, and resp' names it: its  *)
(* handler, the identifier in its path, its status code and its body.       *)

StatusRank(status) ==
    CASE status = "PENDING_OTP" -> 0
      [] status = "OTP_SENT" -> 1
      [] status = "OTP_VERIFIED" -> 2
      [] status = "LINKED" -> 3

\* C1: finalize on an existing PAN or Aadhaar request answers 200 and stores
\* LINKED if and only if the stored status is OTP_VERIFIED when it is called;
\* from PENDING_OTP, OTP_SENT or LINKED it answers 400 and the table is left
\* as it was.
C1_FinalizeIffVerified ==
    [][ /\ ( resp'.op = "AadhaarFinalize" /\ Found(aadhaar_link_requests, resp'.id) ) =>
            IF aadhaar_link_requests[resp'.id].status = "OTP_VERIFIED"
            THEN /\ resp'.code = 200
                 /\ resp'.body.status = "LINKED"
                 /\ aadhaar_link_requests'[resp'.id].status = "LINKED"
            ELSE /\ resp'.code = 400
                 /\ aadhaar_link_requests' = aadhaar_link_requests
        /\ ( resp'.op = "PanFinalize" /\ Found(pan_link_requests, resp'.id) ) =>
            IF pan_link_requests[resp'.id].status = "OTP_VERIFIED"
            THEN /\ resp'.code = 200
                 /\ resp'.body.status = "LINKED"
                 /\ pan_link_requests'[resp'.id].status = "LINKED"
            ELSE /\ resp'.code = 400
                 /\ pan_link_requests' = pan_link_requests
      ]_vars

\* a PAN finalize refused on a request that is already LINKED, with an
\* Aadhaar request LINKED as well
C1_Witness ==
    /\ resp.op = "PanFinalize"
    /\ resp.code = 400
    /\ Found(pan_link_requests, resp.id)
    /\ pan_link_requests[resp.id].status = "LINKED"
    /\ \E a \in DOMAIN aadhaar_link_requests :
           aadhaar_link_requests[a].status = "LINKED"

\* C2: no step changes a request's stored status to a value earlier in the
\* order PENDING_OTP < OTP_SENT < OTP_VERIFIED < LINKED than the one it had.
C2_StatusOnlyMovesForward ==
    [][ /\ \A id \in DOMAIN aadhaar_link_requests :
               StatusRank(aadhaar_link_requests'[id].status)
                   >= StatusRank(aadhaar_link_requests[id].status)
        /\ \A id \in DOMAIN pan_link_requests :
               StatusRank(pan_link_requests'[id].status)
                   >= StatusRank(pan_link_requests[id].status)
      ]_vars

\* C3: once a request's stored status is LINKED it is LINKED in every later
\* state.
C3_LinkedIsTerminal ==
    [][ /\ \A id \in DOMAIN aadhaar_link_requests :
               aadhaar_link_requests[id].status = "LINKED"
                   => aadhaar_link_requests'[id].status = "LINKED"
        /\ \A id \in DOMAIN pan_link_requests :
               pan_link_requests[id].status = "LINKED"
                   => pan_link_requests'[id].status = "LINKED"
      ]_vars

\* C4: with handlers run one at a time, a step that changes a request's
\* stored status to LINKED is a successful finalize of that request whose
\* stored status just before was OTP_VERIFIED, and a step that changes it to
\* OTP_VERIFIED is a successful verify-otp of that request; no row is
\* inserted with either status.
C4_LinkedOnlyFromVerified ==
    [][ /\ \A id \in DOMAIN aadhaar_link_requests' :
             LET was == IF Found(aadhaar_link_requests, id)
                        THEN aadhaar_link_requests[id].status ELSE "none"
                 is == aadhaar_link_requests'[id].status
             IN /\ (is = "LINKED" /\ was # "LINKED") =>
                       /\ was = "OTP_VERIFIED"
                       /\ resp' = Response("AadhaarFinalize", id, 200, resp'.body)
                /\ (is = "OTP_VERIFIED" /\ was # "OTP_VERIFIED") =>
                       /\ was # "none"
                       /\ resp' = Response("AadhaarVerifyOtp", id, 200, resp'.body)
        /\ \A id \in DOMAIN pan_link_requests' :
             LET was == IF Found(pan_link_requests, id)
                        THEN pan_link_requests[id].status ELSE "none"
                 is == pan_link_requests'[id].status
             IN /\ (is = "LINKED" /\ was # "LINKED") =>
                       /\ was = "OTP_VERIFIED"
                       /\ resp' = Response("PanFinalize", id, 200, resp'.body)
                /\ (is = "OTP_VERIFIED" /\ was # "OTP_VERIFIED") =>
                       /\ was # "none"
                       /\ resp' = Response("PanVerifyOtp", id, 200, resp'.body)
      ]_vars

\* a finalize has just stored LINKED
C4_Witness ==
    /\ resp.op = "AadhaarFinalize"
    /\ resp.code = 200
    /\ aadhaar_link_requests[resp.id].status = "LINKED"

\* C5: for an existing request, whatever its status, send-otp answers 200 and
\* leaves the stored status OTP_SENT, and verify-otp answers 200 and leaves the
\* stored status OTP_VERIFIED, whatever otp is posted and whether or not
\* send-otp was called.
C5_SendAndVerifyUnguarded ==
    [][ /\ ( resp'.op = "AadhaarSendOtp" /\ Found(aadhaar_link_requests, resp'.id) ) =>
            /\ resp'.code = 200
            /\ resp'.body.status = "OTP_SENT"
            /\ aadhaar_link_requests'[resp'.id].status = "OTP_SENT"
        /\ ( resp'.op = "AadhaarVerifyOtp" /\ Found(aadhaar_link_requests, resp'.id) ) =>
            /\ resp'.code = 200
            /\ resp'.body.status = "OTP_VERIFIED"
            /\ aadhaar_link_requests'[resp'.id].status = "OTP_VERIFIED"
        /\ ( resp'.op = "PanSendOtp" /\ Found(pan_link_requests, resp'.id) ) =>
            /\ resp'.code = 200
            /\ resp'.body.status = "OTP_SENT"
            /\ pan_link_requests'[resp'.id].status = "OTP_SENT"
        /\ ( resp'.op = "PanVerifyOtp" /\ Found(pan_link_requests, resp'.id) ) =>
            /\ resp'.code = 200
            /\ resp'.body.status = "OTP_VERIFIED"
            /\ pan_link_requests'[resp'.id].status = "OTP_VERIFIED"
      ]_vars

\* a PAN verify-otp has just stored OTP_VERIFIED while an Aadhaar request
\* that was LINKED or verified stands at OTP_SENT again
C5_Witness ==
    /\ resp.op = "PanVerifyOtp"
    /\ resp.code = 200
    /\ pan_link_requests[resp.id].status = "OTP_VERIFIED"
    /\ \E a \in DOMAIN aadhaar_link_requests :
           aadhaar_link_requests[a].status = "OTP_SENT"

AadhaarIdHandlers ==
    {"AadhaarSendOtp", "AadhaarVerifyOtp", "AadhaarFinalize", "AadhaarStatus"}

PanIdHandlers == {"PanSendOtp", "PanVerifyOtp", "PanFinalize", "PanStatus"}

KycIdHandlers == {"Docs", "Summary"}

\* C6: send-otp, verify-otp, finalize and get-status of both linking
\* services, and KYC add-document and summary, answer 404 when the identifier
\* in the path is not in the store, and then no table changes.
C6_UnknownIdNotFound ==
    [][ ( \/ resp'.op \in AadhaarIdHandlers /\ ~Found(aadhaar_link_requests, resp'.id)
          \/ resp'.op \in PanIdHandlers /\ ~Found(pan_link_requests, resp'.id)
          \/ resp'.op \in KycIdHandlers /\ ~Found(kyc_sessions, resp'.id) )
        => /\ resp'.code = 404
           /\ UNCHANGED <<aadhaar_link_requests, pan_link_requests,
                          kyc_sessions, kyc_documents>>
      ]_vars

\* a summary of an unknown session refused while the other session has a
\* document, and a linking request exists
C6_Witness ==
    /\ resp.op = "Summary"
    /\ resp.code = 404
    /\ ~Found(kyc_sessions, resp.id)
    /\ kyc_documents # << >>
    /\ aadhaar_link_requests # << >> \/ pan_link_requests # << >>

\* C7: add-document for a session id that does not exist answers 404 and
\* inserts no document, and every stored document's session_id is the id of a
\* stored session.
C7_DocumentsHaveSessions ==
    /\ [](\A d \in DOMAIN kyc_documents :
              kyc_documents[d].session_id \in DOMAIN kyc_sessions)
    /\ [][ ( resp'.op = "Docs" /\ resp'.id \notin DOMAIN kyc_sessions )
           => /\ resp'.code = 404
              /\ kyc_documents' = kyc_documents
         ]_vars

\* an add-document refused for an unknown session while a document of the
\* other session is stored
C7_Witness ==
    /\ resp.op = "Docs"
    /\ resp.code = 404
    /\ resp.id \notin DOMAIN kyc_sessions
    /\ \E d \in DOMAIN kyc_documents : kyc_documents[d].session_id # resp.id

\* C8: with each handler a read step and a later commit step, a finalize
\* commits LINKED only over a stored status that is still OTP_VERIFIED: not
\* over a status another handler committed after the finalize read the row,
\* and not a second time over the LINKED of a concurrent finalize.
C8_NoLostUpdate ==
    [][ \A w \in Workers :
          /\ ( inflight[w].op = "AadhaarFinalize" /\ inflight'[w].op = "idle" )
             => aadhaar_link_requests[inflight[w].id].status = "OTP_VERIFIED"
          /\ ( inflight[w].op = "PanFinalize" /\ inflight'[w].op = "idle" )
             => pan_link_requests[inflight[w].id].status = "OTP_VERIFIED"
      ]_vars

\* C9: a stored Aadhaar request's masked value is "XXXX-XXXX-" followed by
\* the last 4 characters of the number posted at creation; no step changes
\* the masked_aadhaar, aadhaar_hash or request_id of a stored request; and the
\* masked value in a finalize or get-status response is the stored one.
C9_MaskedAadhaarFixed ==
    [][ /\ \A id \in DOMAIN aadhaar_link_requests' :
               /\ aadhaar_link_requests'[id].masked_aadhaar =
                      <<"X","X","X","X","-","X","X","X","X","-">>
                          \o SubSeq(supplied'[id], Len(supplied'[id]) - 3,
                                    Len(supplied'[id]))
               /\ aadhaar_link_requests'[id].request_id = id
        /\ \A id \in DOMAIN aadhaar_link_requests :
               /\ id \in DOMAIN aadhaar_link_requests'
               /\ supplied'[id] = supplied[id]
               /\ aadhaar_link_requests'[id].masked_aadhaar =
                      aadhaar_link_requests[id].masked_aadhaar
               /\ aadhaar_link_requests'[id].aadhaar_hash =
                      aadhaar_link_requests[id].aadhaar_hash
               /\ aadhaar_link_requests'[id].request_id =
                      aadhaar_link_requests[id].request_id
        /\ ( resp'.op \in {"AadhaarFinalize", "AadhaarStatus"} /\ resp'.code = 200 )
           => resp'.body.maskedAadhaar =
                  aadhaar_link_requests'[resp'.id].masked_aadhaar
      ]_vars

\* get-status of a LINKED request returns the mask of the number posted for
\* it, while the other request, created with the other number, is stored
C9_Witness ==
    /\ resp.op = "AadhaarStatus"
    /\ resp.code = 200
    /\ aadhaar_link_requests[resp.id].status = "LINKED"
    /\ resp.body.maskedAadhaar = <<"X","X","X","X","-","X","X","X","X","-","4","4","4","4">>
    /\ \E other \in DOMAIN aadhaar_link_requests :
           aadhaar_link_requests[other].masked_aadhaar # resp.body.maskedAadhaar

\* C10: a create that answers 201 stores the request with status PENDING_OTP;
\* send-otp right after it, verify-otp right after that and finalize right
\* after that, on the same request, each answer 200 and store OTP_SENT,
\* OTP_VERIFIED and LINKED; the Aadhaar finalize response carries the mask of
\* the number posted at creation.
C10_HappyPath ==
    [][ /\ ( resp'.op = "AadhaarStart" /\ resp'.code = 201 ) =>
               /\ Found(aadhaar_link_requests', resp'.id)
               /\ aadhaar_link_requests'[resp'.id].status = "PENDING_OTP"
               /\ resp'.body.status = "PENDING_OTP"
        /\ ( /\ resp.op = "AadhaarStart" /\ resp.code = 201
             /\ resp'.op = "AadhaarSendOtp" /\ resp'.id = resp.id ) =>
               /\ resp'.code = 200
               /\ resp'.body.status = "OTP_SENT"
               /\ aadhaar_link_requests'[resp'.id].status = "OTP_SENT"
        /\ ( /\ resp.op = "AadhaarSendOtp" /\ resp.code = 200
             /\ resp'.op = "AadhaarVerifyOtp" /\ resp'.id = resp.id ) =>
               /\ resp'.code = 200
               /\ resp'.body.status = "OTP_VERIFIED"
               /\ aadhaar_link_requests'[resp'.id].status = "OTP_VERIFIED"
        /\ ( /\ resp.op = "AadhaarVerifyOtp" /\ resp.code = 200
             /\ resp'.op = "AadhaarFinalize" /\ resp'.id = resp.id ) =>
               /\ resp'.code = 200
               /\ resp'.body.status = "LINKED"
               /\ aadhaar_link_requests'[resp'.id].status = "LINKED"
               /\ resp'.body.maskedAadhaar =
                      <<"X","X","X","X","-","X","X","X","X","-">>
                          \o SubSeq(supplied[resp.id], 9, 12)
        /\ ( resp'.op = "PanStart" /\ resp'.code = 201 ) =>
               /\ Found(pan_link_requests', resp'.id)
               /\ pan_link_requests'[resp'.id].status = "PENDING_OTP"
               /\ resp'.body.status = "PENDING_OTP"
        /\ ( /\ resp.op = "PanStart" /\ resp.code = 201
             /\ resp'.op = "PanSendOtp" /\ resp'.id = resp.id ) =>
               /\ resp'.code = 200
               /\ resp'.body.status = "OTP_SENT"
               /\ pan_link_requests'[resp'.id].status = "OTP_SENT"
        /\ ( /\ resp.op = "PanSendOtp" /\ resp.code = 200
             /\ resp'.op = "PanVerifyOtp" /\ resp'.id = resp.id ) =>
               /\ resp'.code = 200
               /\ resp'.body.status = "OTP_VERIFIED"
               /\ pan_link_requests'[resp'.id].status = "OTP_VERIFIED"
        /\ ( /\ resp.op = "PanVerifyOtp" /\ resp.code = 200
             /\ resp'.op = "PanFinalize" /\ resp'.id = resp.id ) =>
               /\ resp'.code = 200
               /\ resp'.body.status = "LINKED"
               /\ pan_link_requests'[resp'.id].status = "LINKED"
      ]_vars

\* the scenario's end: finalize answers 200 with LINKED and XXXX-XXXX-9012
\* for the request created with 123456789012
C10_Witness ==
    /\ resp.op = "AadhaarFinalize"
    /\ resp.code = 200
    /\ resp.body.status = "LINKED"
    /\ supplied[resp.id] = <<"1","2","3","4","5","6","7","8","9","0","1","2">>
    /\ resp.body.maskedAadhaar = <<"X","X","X","X","-","X","X","X","X","-","9","0","1","2">>
    /\ aadhaar_link_requests[resp.id].status = "LINKED"

AadhaarColumns ==
    {"request_id", "aadhaar_hash", "masked_aadhaar", "status", "consent_obtained",
     "created_at", "updated_at"}

PanColumns ==
    {"request_id", "pan_number", "customer_name", "status", "created_at", "updated_at"}

SessionColumns == {"id", "kyc_purpose", "jurisdiction", "status", "created_at"}

DocumentColumns ==
    {"id", "session_id", "document_type", "side", "country", "state", "uploaded_at"}

\* table' is table with exactly one row added, under a key the table did not
\* hold, with every column of `columns`; the rows it held are as they were
OneRowAdded(table, tableAfter, id, columns) ==
    /\ id \notin DOMAIN table
    /\ DOMAIN tableAfter = DOMAIN table \cup {id}
    /\ DOMAIN tableAfter[id] = columns
    /\ \A k \in DOMAIN table : tableAfter[k] = table[k]

\* C11: a create call (Aadhaar start, PAN start, create-session,
\* add-document) either answers 201 and has added exactly one complete row,
\* under an identifier no row had, leaving every other row and table as it
\* was, or answers an error and leaves all four tables as they were; when the
\* generated identifier is that of a stored row, the call answers an error.
C11_CreateIsAtomic ==
    [][ /\ resp'.op = "AadhaarStart" =>
             IF resp'.code = 201
             THEN /\ OneRowAdded(aadhaar_link_requests, aadhaar_link_requests',
                                 resp'.id, AadhaarColumns)
                  /\ aadhaar_link_requests'[resp'.id].request_id = resp'.id
                  /\ resp'.body.requestId = resp'.id
                  /\ UNCHANGED <<pan_link_requests, kyc_sessions, kyc_documents>>
             ELSE /\ resp'.code >= 400
                  /\ UNCHANGED <<aadhaar_link_requests, pan_link_requests,
                                 kyc_sessions, kyc_documents>>
        /\ resp'.op = "PanStart" =>
             IF resp'.code = 201
             THEN /\ OneRowAdded(pan_link_requests, pan_link_requests',
                                 resp'.id, PanColumns)
                  /\ pan_link_requests'[resp'.id].request_id = resp'.id
                  /\ resp'.body.requestId = resp'.id
                  /\ UNCHANGED <<aadhaar_link_requests, kyc_sessions, kyc_documents>>
             ELSE /\ resp'.code >= 400
                  /\ UNCHANGED <<aadhaar_link_requests, pan_link_requests,
                                 kyc_sessions, kyc_documents>>
        /\ resp'.op = "Sessions" =>
             IF resp'.code = 201
             THEN /\ OneRowAdded(kyc_sessions, kyc_sessions', resp'.id, SessionColumns)
                  /\ kyc_sessions'[resp'.id].id = resp'.id
                  /\ resp'.body.sessionId = resp'.id
                  /\ UNCHANGED <<aadhaar_link_requests, pan_link_requests, kyc_documents>>
             ELSE /\ resp'.code >= 400
                  /\ UNCHANGED <<aadhaar_link_requests, pan_link_requests,
                                 kyc_sessions, kyc_documents>>
        /\ resp'.op = "Docs" =>
             IF resp'.code = 201
             THEN /\ OneRowAdded(kyc_documents, kyc_documents',
                                 resp'.body.documentId, DocumentColumns)
                  /\ kyc_documents'[resp'.body.documentId].id = resp'.body.documentId
                  /\ kyc_documents'[resp'.body.documentId].session_id = resp'.id
                  /\ UNCHANGED <<aadhaar_link_requests, pan_link_requests, kyc_sessions>>
             ELSE /\ resp'.code >= 400
                  /\ UNCHANGED <<aadhaar_link_requests, pan_link_requests,
                                 kyc_sessions, kyc_documents>>
      ]_vars

\* an Aadhaar start whose generated identifier was already taken has been
\* answered with an error, and the row stored under it has moved on from the
\* status a new row would have
C11_Witness ==
    /\ resp.op = "AadhaarStart"
    /\ resp.code = 500
    /\ Found(aadhaar_link_requests, resp.id)
    /\ aadhaar_link_requests[resp.id].status = "OTP_VERIFIED"
    /\ kyc_documents # << >>

\* the documents stored for session s in table documents
DocumentsOf(documents, s) == { d \in DOMAIN documents : documents[d].session_id = s }

\* C12: the documents stored for a session are those its successful
\* add-document calls added (each such call adds exactly one document to that
\* session and none to another, and no other call adds or removes one), and
\* summary of an existing session answers status CREATED, a documentCount
\* equal to the number of that session's documents, and one entry
\* {id, type, status UPLOADED} per such document, changing no table.
C12_SummaryCountsOwnDocuments ==
    [][ /\ \A s \in SessionIds :
             IF resp'.op = "Docs" /\ resp'.code = 201 /\ resp'.id = s
             THEN /\ resp'.body.documentId \notin DOMAIN kyc_documents
                  /\ DocumentsOf(kyc_documents', s) =
                         DocumentsOf(kyc_documents, s) \cup {resp'.body.documentId}
             ELSE DocumentsOf(kyc_documents', s) = DocumentsOf(kyc_documents, s)
        /\ ( resp'.op = "Summary" /\ Found(kyc_sessions, resp'.id) ) =>
             /\ resp'.code = 200
             /\ resp'.body.sessionId = resp'.id
             /\ resp'.body.status = "CREATED"
             /\ resp'.body.documentCount =
                    Cardinality(DocumentsOf(kyc_documents, resp'.id))
             /\ Cardinality(resp'.body.documents) = resp'.body.documentCount
             /\ { e.id : e \in resp'.body.documents } =
                    DocumentsOf(kyc_documents, resp'.id)
             /\ \A e \in resp'.body.documents :
                    /\ e.status = "UPLOADED"
                    /\ e.type = kyc_documents[e.id].document_type
             /\ UNCHANGED <<aadhaar_link_requests, pan_link_requests,
                            kyc_sessions, kyc_documents>>
      ]_vars

\* the summary of a session with no document of its own answers a count of 0
\* while the other session has a document
C12_Witness ==
    /\ resp.op = "Summary"
    /\ resp.code = 200
    /\ resp.body.documentCount = 0
    /\ resp.body.documents = {}
    /\ \E d \in DOMAIN kyc_documents :
           /\ kyc_documents[d].session_id # resp.id
           /\ kyc_documents[d].session_id \in DOMAIN kyc_sessions

LinkWriters ==
    {"AadhaarSendOtp", "AadhaarVerifyOtp", "AadhaarFinalize",
     "PanSendOtp", "PanVerifyOtp", "PanFinalize"}

\* the row a linking handler's response is about
RespRow(aadhaar, pan, r) ==
    IF r.op \in AadhaarIdHandlers THEN aadhaar[r.id] ELSE pan[r.id]

\* C13: after every send-otp, verify-otp or finalize call that answers 200,
\* also one that assigns the status the request already has, the request's
\* stored updated_at (the updatedAt a following get-status returns) is the
\* time of that call.
C13_UpdatedAtRefreshed ==
    [][ ( now' = now /\ resp'.op \in LinkWriters /\ resp'.code = 200 )
        => /\ RespRow(aadhaar_link_requests', pan_link_requests', resp').updated_at = now
           /\ resp'.op \in AadhaarIdHandlers =>
                  AadhaarStatusBody(aadhaar_link_requests'[resp'.id]).updatedAt = now
           /\ resp'.op \in PanIdHandlers =>
                  PanStatusBody(pan_link_requests'[resp'.id]).updatedAt = now
      ]_vars

\* C14: no step removes a stored row or changes the identifier it is stored
\* under, in any of the four tables; and a send-otp, verify-otp, finalize or
\* get-status call on request X leaves every row with another identifier,
\* and every other table, exactly as it was.
C14_IsolatedAndNeverRemoved ==
    [][ /\ \A id \in DOMAIN aadhaar_link_requests :
               /\ id \in DOMAIN aadhaar_link_requests'
               /\ aadhaar_link_requests'[id].request_id = id
        /\ \A id \in DOMAIN pan_link_requests :
               /\ id \in DOMAIN pan_link_requests'
               /\ pan_link_requests'[id].request_id = id
        /\ \A id \in DOMAIN kyc_sessions :
               /\ id \in DOMAIN kyc_sessions'
               /\ kyc_sessions'[id].id = id
        /\ \A id \in DOMAIN kyc_documents :
               /\ id \in DOMAIN kyc_documents'
               /\ kyc_documents'[id].id = id
        /\ resp'.op \in AadhaarIdHandlers =>
               /\ DOMAIN aadhaar_link_requests' = DOMAIN aadhaar_link_requests
               /\ \A other \in DOMAIN aadhaar_link_requests \ {resp'.id} :
                      aadhaar_link_requests'[other] = aadhaar_link_requests[other]
               /\ UNCHANGED <<pan_link_requests, kyc_sessions, kyc_documents>>
        /\ resp'.op \in PanIdHandlers =>
               /\ DOMAIN pan_link_requests' = DOMAIN pan_link_requests
               /\ \A other \in DOMAIN pan_link_requests \ {resp'.id} :
                      pan_link_requests'[other] = pan_link_requests[other]
               /\ UNCHANGED <<aadhaar_link_requests, kyc_sessions, kyc_documents>>
      ]_vars

\* a send-otp on one Aadhaar request has been answered while the other
\* Aadhaar request stands LINKED and a PAN request stands OTP_VERIFIED
C14_Witness ==
    /\ resp.op = "AadhaarSendOtp"
    /\ resp.code = 200
    /\ aadhaar_link_requests[resp.id].status = "OTP_SENT"
    /\ \E other \in DOMAIN aadhaar_link_requests \ {resp.id} :
           aadhaar_link_requests[other].status = "LINKED"
    /\ \E p \in DOMAIN pan_link_requests :
           pan_link_requests[p].status = "OTP_VERIFIED"

====
